---- MODULE Spec2Model ----
(***************************************************************************)
(* MyFatoorah payment gateway for Odoo: the notification reconciliation    *)
(* protocol of controllers/main.py, models/payment_provider.py and         *)
(* models/payment_transaction.py.                                          *)
(*                                                                         *)
(* Strings that the code inspects character by character (the signature    *)
(* header, the raw body, the webhook secret) are sequences of code points  *)
(* 0..255; all other strings are TLA+ strings.                             *)
(***************************************************************************)
EXTENDS Integers, Sequences, FiniteSets, TLC

VARIABLES
    providers,   \* payment.provider records of the database
    txs,         \* payment.transaction records of the database
    last,        \* the last completed HTTP request: its input and its outcome
    vcase,       \* the last direct call of the signature verifier
    gw,          \* SpecRace: what the gateway answers to a status call
    req          \* SpecRace: the requests in flight, each with its position;
                 \* SpecInvoice: the transaction an invoice is created for

vars == <<providers, txs, last, vcase, gw, req>>

(***************************************************************************)
(* Bounds of the model.                                                    *)
(***************************************************************************)
MaxBodyLen == 2      \* bytes of a raw body handed to the verifier directly
MaxNotes == 1        \* chatter notes counted per transaction
MaxRace == 2         \* concurrent requests of one race
MaxLines == 2        \* order lines of the transaction an invoice is created for

(***************************************************************************)
(* Code points.                                                            *)
(***************************************************************************)
Pow2(k) == 2 ^ k

\* c with bit k flipped
FlipBit(c, k) == IF (c \div Pow2(k)) % 2 = 1 THEN c - Pow2(k) ELSE c + Pow2(k)

\* seq with bit k of its i-th element flipped
FlipAt(seq, i, k) == [seq EXCEPT ![i] = FlipBit(seq[i], k)]

\* str.isascii() of every character
IsAscii(s) == \A i \in 1..Len(s) : s[i] < 128

\* the lowercase hexadecimal digit of a nibble, as bytes.hex() writes it
HexChar(n) == IF n < 10 THEN 48 + n ELSE 87 + n

RECURSIVE HexEncode(_)
HexEncode(bytes) ==
    IF bytes = <<>> THEN <<>>
    ELSE <<HexChar(Head(bytes) \div 16), HexChar(Head(bytes) % 16)>>
             \o HexEncode(Tail(bytes))

\* str.upper() on a string of hexadecimal digits
RECURSIVE Upper(_)
Upper(s) ==
    IF s = <<>> THEN <<>>
    ELSE <<IF Head(s) >= 97 /\ Head(s) <= 122 THEN Head(s) - 32 ELSE Head(s)>>
             \o Upper(Tail(s))

(***************************************************************************)
(* hmac.new(key, msg, sha256).digest(): SHA-256 itself is outside a        *)
(* bounded model, so the digest is a 16-bit keyed fold of the key bytes    *)
(* and the message bytes.  It is a deterministic function of (key, msg)    *)
(* and has no collision on the bodies and secrets enumerated below, which  *)
(* is the property of HMAC-SHA256 the protocol relies on.                  *)
(***************************************************************************)
RECURSIVE FoldBytes(_, _)
FoldBytes(h, bytes) ==
    IF bytes = <<>> THEN h
    ELSE FoldBytes((h * 31 + Head(bytes) + 1) % 65536, Tail(bytes))

HmacDigest(key, msg) ==
    LET h == FoldBytes(FoldBytes(FoldBytes(7, key), <<255>>), msg)
    IN  <<h \div 256, h % 256>>

HmacHex(key, msg) == HexEncode(HmacDigest(key, msg))

\* hmac.compare_digest(a, b) on two str: TypeError unless both are ASCII
CompareDigest(a, b) ==
    IF ~IsAscii(a) \/ ~IsAscii(b) THEN "TypeError"
    ELSE IF a = b THEN "True" ELSE "False"

\* the verifier without the guard of lines 231-235
VerifyNoSecretGuard(secret, raw_body, signature) ==
    CompareDigest(HmacHex(secret, raw_body), signature)

\* PaymentProvider._myfatoorah_verify_webhook_signature, of a provider whose
\* myfatoorah_webhook_secret is `secret` (<<>>: empty or unset)
myfatoorah_verify_webhook_signature(secret, raw_body, signature) ==
    IF secret = <<>> THEN "False"
    ELSE CompareDigest(HmacHex(secret, raw_body), signature)

(***************************************************************************)
(* Records of the database.                                                *)
(***************************************************************************)
NoSecret == <<>>
K1 == <<107, 49>>
K2 == <<107, 50>>

ProviderIds == {1, 2}
TxIds == {1, 2}

\* str(invoice_id) of a gateway invoice id
Str(n) == ToString(n)

\* The transition primitives of the payment framework (_update_state): the
\* state and its message are written when the current state is one the
\* primitive accepts, and the call is a logged no-op otherwise.
UpdateState(t, allowed_states, target_state, state_message) ==
    IF t.state \in allowed_states
    THEN [t EXCEPT !.state = target_state, !.state_message = state_message]
    ELSE t

set_done(t) ==
    UpdateState(t, {"draft", "pending", "authorized", "error"}, "done", <<"", "">>)

set_pending(t) == UpdateState(t, {"draft"}, "pending", <<"", "">>)

set_canceled(t, state_message) ==
    UpdateState(t, {"draft", "pending", "authorized"}, "cancel", state_message)

set_error(t, state_message) ==
    UpdateState(t, {"draft", "pending", "authorized"}, "error", state_message)

\* recordset.search(domain, limit=1) on payment.transaction (_order 'id desc'):
\* the id found, 0 for the empty recordset
FirstOf(ids) == IF ids = {} THEN 0 ELSE CHOOSE i \in ids : \A j \in ids : j <= i

SearchByReference(T, ref) ==
    FirstOf({i \in TxIds : T[i].reference = ref /\ T[i].provider_code = "myfatoorah"})

SearchByProviderReference(T, pref) ==
    FirstOf({i \in TxIds : T[i].provider_reference = pref
                           /\ T[i].provider_code = "myfatoorah"})

\* the ascending sequence of a set of ids: the order a recordset is iterated in
RECURSIVE SortedSeq(_)
SortedSeq(ids) ==
    IF ids = {} THEN <<>>
    ELSE LET m == CHOOSE i \in ids : \A j \in ids : i <= j
         IN  <<m>> \o SortedSeq(ids \ {m})

(***************************************************************************)
(* The gateway client.  A response of the remote API is a record           *)
(*   [kind, http, IsSuccess, Data]                                         *)
(* kind: what requests.post and response.json() make of the exchange;      *)
(* Data: [shape, InvoiceId, InvoiceStatus, CustomerReference,              *)
(*        InvoiceTransactions].                                            *)
(***************************************************************************)
NoData == [shape |-> "dict", InvoiceId |-> 0, InvoiceStatus |-> "",
           CustomerReference |-> "", InvoiceTransactions |-> <<>>]

Failure(kind) == [kind |-> kind, http |-> 0, IsSuccess |-> FALSE, Data |-> NoData]

Answer(http, ok, data) == [kind |-> "Json", http |-> http, IsSuccess |-> ok, Data |-> data]

StatusData(inv, status, ref, entries) ==
    [shape |-> "dict", InvoiceId |-> inv, InvoiceStatus |-> status,
     CustomerReference |-> ref, InvoiceTransactions |-> entries]

Entry(status, error, code) ==
    [TransactionStatus |-> status, Error |-> error, ErrorCode |-> code]

\* PaymentProvider._myfatoorah_make_request: [raised, data, sent]
\* raised: "" or the exception; sent: whether an HTTP request went out
myfatoorah_make_request(P, p, resp) ==
    IF ~P[p].api_key
    THEN [raised |-> "ValidationError", data |-> NoData, sent |-> FALSE]
    ELSE IF resp.kind \in {"Timeout", "ConnectionError", "RequestException", "NonJson"}
    THEN [raised |-> "ValidationError", data |-> NoData, sent |-> TRUE]
    ELSE IF resp.kind = "JsonList"
    THEN [raised |-> "AttributeError", data |-> NoData, sent |-> TRUE]
    ELSE IF resp.http # 200 \/ ~resp.IsSuccess
    THEN [raised |-> "ValidationError", data |-> NoData, sent |-> TRUE]
    ELSE [raised |-> "", data |-> resp.Data, sent |-> TRUE]

\* str.lower() on the status vocabulary of the gateway
Lower(s) ==
    CASE s \in {"Paid", "PAID"} -> "paid"
      [] s \in {"Pending", "PENDING"} -> "pending"
      [] s = "Initiated" -> "initiated"
      [] s = "Expired" -> "expired"
      [] s = "Canceled" -> "canceled"
      [] s \in {"Failed", "FAILED"} -> "failed"
      [] s \in {"Succss", "SUCCSS"} -> "succss"
      [] s = "Success" -> "success"
      [] s = "InProgress" -> "inprogress"
      [] OTHER -> s

\* a or b, on strings
OrElse(a, b) == IF a # "" THEN a ELSE b

(***************************************************************************)
(* The status reconciler.  Its result is a record                          *)
(*   [txs, raised, calls, primitives]                                      *)
(* txs: the transactions after the call; raised: "" or the exception that  *)
(* leaves it; calls: the status requests sent, in order; primitives: the   *)
(* transition primitives invoked, in order; state_reads: how often the     *)
(* call read the state of the transaction.                                 *)
(***************************************************************************)
Call(p, key, key_type, resp) ==
    [provider |-> p, Key |-> key, KeyType |-> key_type, resp |-> resp]

Msg(text, arg) == <<text, arg>>
NoMsg == Msg("", "")

\* a mapping that believes the 'status' entry of the notification
MapStatusTrustingNotification(t, notification_data, invoice_status, tx_status, latest_tx) ==
    IF notification_data.status = "success" \/ invoice_status = "paid"
       \/ tx_status = "succss"
    THEN [primitive |-> "set_done", tx |-> set_done(t)]
    ELSE IF notification_data.status = "error"
    THEN [primitive |-> "set_error",
          tx |-> set_error(t, Msg("Payment failed.", ""))]
    ELSE [primitive |-> "set_pending", tx |-> set_pending(t)]

\* a mapping that takes a paid invoice for one still pending
MapStatusPaidToPending(t, notification_data, invoice_status, tx_status, latest_tx) ==
    IF invoice_status \in {"paid", "pending", "initiated"}
    THEN [primitive |-> "set_pending", tx |-> set_pending(t)]
    ELSE [primitive |-> "set_error",
          tx |-> set_error(t, Msg("Received unknown payment status:",
                                  OrElse(OrElse(invoice_status, tx_status), "unknown")))]

\* a mapping that leaves the entry's error text out of the failure message
MapStatusNoErrorText(t, notification_data, invoice_status, tx_status, latest_tx) ==
    IF invoice_status = "paid" \/ tx_status = "succss"
    THEN [primitive |-> "set_done", tx |-> set_done(t)]
    ELSE IF invoice_status = "failed" \/ tx_status = "failed"
    THEN [primitive |-> "set_error", tx |-> set_error(t, Msg("Payment failed.", ""))]
    ELSE [primitive |-> "set_error",
          tx |-> set_error(t, Msg("Received unknown payment status:",
                                  OrElse(OrElse(invoice_status, tx_status), "unknown")))]

\* a mapping that knows the invoice-level status paid alone as success
MapStatusPaidOnly(t, notification_data, invoice_status, tx_status, latest_tx) ==
    IF invoice_status = "paid"
    THEN [primitive |-> "set_done", tx |-> set_done(t)]
    ELSE IF invoice_status \in {"pending", "initiated"}
            \/ tx_status \in {"pending", "initiated"}
    THEN [primitive |-> "set_pending", tx |-> set_pending(t)]
    ELSE [primitive |-> "set_error",
          tx |-> set_error(t, Msg("Received unknown payment status:",
                                  OrElse(OrElse(invoice_status, tx_status), "unknown")))]

\* lines 299-325: the transition a status response is mapped to, as
\* [primitive, tx]
MapStatus(t, notification_data, invoice_status, tx_status, latest_tx) ==
    IF invoice_status = "paid" \/ tx_status = "succss"
    THEN [primitive |-> "set_done", tx |-> set_done(t)]
    ELSE IF invoice_status \in {"pending", "initiated"}
            \/ tx_status \in {"pending", "initiated"}
    THEN [primitive |-> "set_pending", tx |-> set_pending(t)]
    ELSE IF invoice_status \in {"expired", "canceled"}
            \/ tx_status \in {"expired", "canceled"}
    THEN [primitive |-> "set_canceled",
          tx |-> set_canceled(t, Msg("Payment was", OrElse(invoice_status, tx_status)))]
    ELSE IF invoice_status = "failed" \/ tx_status = "failed"
    THEN [primitive |-> "set_error",
          tx |-> set_error(t, Msg("Payment failed.",
                     IF latest_tx = <<>> THEN ""
                     ELSE OrElse(latest_tx[1].Error, latest_tx[1].ErrorCode)))]
    ELSE [primitive |-> "set_error",
          tx |-> set_error(t, Msg("Received unknown payment status:",
                                  OrElse(OrElse(invoice_status, tx_status), "unknown")))]

\* the same reading the first entry of the transaction list, not the last
ApplyStatusFirstEntry(T, id, notification_data, status_data) ==
    LET t == T[id]
        invoice_status == Lower(status_data.InvoiceStatus)
        t1 == IF status_data.InvoiceId # 0 /\ t.provider_reference = ""
              THEN [t EXCEPT !.provider_reference = Str(status_data.InvoiceId)]
              ELSE t
        transactions == status_data.InvoiceTransactions
        latest_tx == IF transactions # <<>> THEN <<transactions[1]>> ELSE <<>>
        tx_status == IF transactions # <<>>
                     THEN Lower(latest_tx[1].TransactionStatus)
                     ELSE invoice_status
        m == MapStatus(t1, notification_data, invoice_status, tx_status, latest_tx)
    IN  [txs |-> [T EXCEPT ![id] = m.tx], primitive |-> m.primitive]

\* the same writing the response's InvoiceId over a provider_reference that
\* is set
ApplyStatusOverwrite(T, id, notification_data, status_data) ==
    LET t == T[id]
        invoice_status == Lower(status_data.InvoiceStatus)
        t1 == IF status_data.InvoiceId # 0
              THEN [t EXCEPT !.provider_reference = Str(status_data.InvoiceId)]
              ELSE t
        transactions == status_data.InvoiceTransactions
        latest_tx == IF transactions # <<>>
                     THEN <<transactions[Len(transactions)]>> ELSE <<>>
        tx_status == IF transactions # <<>>
                     THEN Lower(latest_tx[1].TransactionStatus)
                     ELSE invoice_status
        m == MapStatus(t1, notification_data, invoice_status, tx_status, latest_tx)
    IN  [txs |-> [T EXCEPT ![id] = m.tx], primitive |-> m.primitive]

\* lines 278-325: what a status response does to transaction `id`
ApplyStatus(T, id, notification_data, status_data) ==
    LET t == T[id]
        invoice_status == Lower(status_data.InvoiceStatus)
        t1 == IF status_data.InvoiceId # 0 /\ t.provider_reference = ""
              THEN [t EXCEPT !.provider_reference = Str(status_data.InvoiceId)]
              ELSE t
        transactions == status_data.InvoiceTransactions
        latest_tx == IF transactions # <<>>
                     THEN <<transactions[Len(transactions)]>> ELSE <<>>
        tx_status == IF transactions # <<>>
                     THEN Lower(latest_tx[1].TransactionStatus)
                     ELSE invoice_status
        m == MapStatus(t1, notification_data, invoice_status, tx_status, latest_tx)
    IN  [txs |-> [T EXCEPT ![id] = m.tx], primitive |-> m.primitive]

\* a key that prefers the invoice id to the paymentId
StatusKeyInvoiceIdFirst(t, notification_data) ==
    LET payment_id == notification_data.paymentId
        invoice_id == IF notification_data.InvoiceId # 0
                      THEN Str(notification_data.InvoiceId)
                      ELSE t.provider_reference
    IN  IF invoice_id # "" THEN [key |-> invoice_id, key_type |-> "InvoiceId"]
        ELSE IF payment_id # "" THEN [key |-> payment_id, key_type |-> "PaymentId"]
        ELSE [key |-> "", key_type |-> ""]

\* lines 232-255: the key of the status query, as [key, key_type]
StatusKey(t, notification_data) ==
    LET payment_id == notification_data.paymentId
        invoice_id == IF notification_data.InvoiceId # 0
                      THEN Str(notification_data.InvoiceId)
                      ELSE t.provider_reference
    IN  IF payment_id # "" THEN [key |-> payment_id, key_type |-> "PaymentId"]
        ELSE IF invoice_id # "" THEN [key |-> invoice_id, key_type |-> "InvoiceId"]
        ELSE [key |-> "", key_type |-> ""]

\* a handler that lets the ValidationError of the status call through
OnGatewayErrorRaise(T, id, calls) ==
    [txs |-> T, raised |-> "ValidationError", calls |-> calls, primitives |-> <<>>, state_reads |-> 0]

\* lines 263-271: the handler of a ValidationError of the status call
OnGatewayError(T, id, calls) ==
    [txs |-> [T EXCEPT ![id] = set_error(T[id], Msg("Failed to verify payment status.", ""))],
     raised |-> "", calls |-> calls, primitives |-> <<"set_error">>, state_reads |-> 0]

\* a reconciler that sends the status request through the first provider of
\* this gateway, not through the provider of the transaction
ReconcileThroughFirstProvider(T, P, id, notification_data, resp) ==
    LET t == T[id]
        k == StatusKey(t, notification_data)
        p0 == CHOOSE p \in ProviderIds :
                  /\ P[p].code = "myfatoorah"
                  /\ \A q \in ProviderIds : P[q].code = "myfatoorah" => p <= q
        r == myfatoorah_make_request(P, p0, resp)
        calls == IF r.sent THEN <<Call(p0, k.key, k.key_type, resp)>> ELSE <<>>
    IN  IF t.provider_code # "myfatoorah"
        THEN [txs |-> T, raised |-> "", calls |-> <<>>, primitives |-> <<>>, state_reads |-> 0]
        ELSE IF k.key = ""
        THEN [txs |-> [T EXCEPT ![id] =
                          set_error(t, Msg("Missing payment identification in the notification.", ""))],
              raised |-> "", calls |-> <<>>, primitives |-> <<"set_error">>, state_reads |-> 0]
        ELSE IF r.raised = "ValidationError"
        THEN OnGatewayError(T, id, calls)
        ELSE IF r.raised # "" \/ r.data.shape # "dict"
        THEN [txs |-> T, raised |-> "AttributeError", calls |-> calls,
              primitives |-> <<>>, state_reads |-> 0]
        ELSE LET a == ApplyStatus(T, id, notification_data, r.data)
             IN  [txs |-> a.txs, raised |-> "", calls |-> calls,
                  primitives |-> <<a.primitive>>, state_reads |-> 0]

\* PaymentTransaction._process_notification_data, on transaction `id`, with
\* `resp` the gateway's response to the status request it sends
process_notification_data(T, P, id, notification_data, resp) ==
    LET t == T[id]
        k == StatusKey(t, notification_data)
        r == myfatoorah_make_request(P, t.provider_id, resp)
        calls == IF r.sent
                 THEN <<Call(t.provider_id, k.key, k.key_type, resp)>> ELSE <<>>
    IN  IF t.provider_code # "myfatoorah"
        THEN [txs |-> T, raised |-> "", calls |-> <<>>, primitives |-> <<>>, state_reads |-> 0]
        ELSE IF k.key = ""
        THEN [txs |-> [T EXCEPT ![id] =
                          set_error(t, Msg("Missing payment identification in the notification.", ""))],
              raised |-> "", calls |-> <<>>, primitives |-> <<"set_error">>, state_reads |-> 0]
        ELSE IF r.raised = "ValidationError"
        THEN OnGatewayError(T, id, calls)
        ELSE IF r.raised # "" \/ r.data.shape # "dict"
        THEN [txs |-> T, raised |-> "AttributeError", calls |-> calls,
              primitives |-> <<>>, state_reads |-> 0]
        ELSE LET a == ApplyStatus(T, id, notification_data, r.data)
             IN  [txs |-> a.txs, raised |-> "", calls |-> calls,
                  primitives |-> <<a.primitive>>, state_reads |-> 0]

(***************************************************************************)
(* The transaction locator.  Its result is [tx, raised, calls, named]: tx   *)
(* is the id found, 0 when it raises; named lists the identifiers the      *)
(* error message carries.  tape[i] is the gateway's response to the status *)
(* request of the i-th provider of tier 3.                                 *)
(***************************************************************************)
\* a tier 3 that gives up at the first provider whose status call errors
RECURSIVE LocateStopAtError(_, _, _, _, _, _, _)
LocateStopAtError(T, P, provs, i, payment_id, tape, calls) ==
    IF i > Len(provs)
    THEN [tx |-> 0, raised |-> "ValidationError", calls |-> calls]
    ELSE LET p == provs[i]
             r == myfatoorah_make_request(P, p, tape[i])
             calls1 == IF r.sent
                       THEN Append(calls, Call(p, payment_id, "PaymentId", tape[i]))
                       ELSE calls
             byRef == IF r.data.CustomerReference # ""
                      THEN SearchByReference(T, r.data.CustomerReference) ELSE 0
             byInv == IF r.data.InvoiceId # 0
                      THEN SearchByProviderReference(T, Str(r.data.InvoiceId)) ELSE 0
         IN  IF r.raised # "" \/ r.data.shape # "dict"
             THEN [tx |-> 0, raised |-> "ValidationError", calls |-> calls1]
             ELSE IF byRef # 0 THEN [tx |-> byRef, raised |-> "", calls |-> calls1]
             ELSE IF byInv # 0 THEN [tx |-> byInv, raised |-> "", calls |-> calls1]
             ELSE LocateStopAtError(T, P, provs, i + 1, payment_id, tape, calls1)

\* lines 186-212: the providers from the i-th on
RECURSIVE LocateByPaymentId(_, _, _, _, _, _, _)
LocateByPaymentId(T, P, provs, i, payment_id, tape, calls) ==
    IF i > Len(provs)
    THEN [tx |-> 0, raised |-> "ValidationError", calls |-> calls]
    ELSE LET p == provs[i]
             r == myfatoorah_make_request(P, p, tape[i])
             calls1 == IF r.sent
                       THEN Append(calls, Call(p, payment_id, "PaymentId", tape[i]))
                       ELSE calls
             byRef == IF r.data.CustomerReference # ""
                      THEN SearchByReference(T, r.data.CustomerReference) ELSE 0
             byInv == IF r.data.InvoiceId # 0
                      THEN SearchByProviderReference(T, Str(r.data.InvoiceId)) ELSE 0
         IN  IF r.raised # "" \/ r.data.shape # "dict"
             THEN LocateByPaymentId(T, P, provs, i + 1, payment_id, tape, calls1)
             ELSE IF byRef # 0 THEN [tx |-> byRef, raised |-> "", calls |-> calls1]
             ELSE IF byInv # 0 THEN [tx |-> byInv, raised |-> "", calls |-> calls1]
             ELSE LocateByPaymentId(T, P, provs, i + 1, payment_id, tape, calls1)

\* the providers the locator asks: lines 182-185
StatusProviders(P) ==
    SortedSeq({p \in ProviderIds : P[p].code = "myfatoorah"
                                   /\ P[p].state \in {"enabled", "test"}})

\* lines 163-212: the cascade of the three tiers
CascadeInvoiceIdFirst(T, P, notification_data, tape) ==
    LET reference == notification_data.CustomerReference
        payment_id == notification_data.paymentId
        invoice_id == notification_data.InvoiceId
        byRef == IF reference # "" THEN SearchByReference(T, reference) ELSE 0
        byInv == IF invoice_id # 0
                 THEN SearchByProviderReference(T, Str(invoice_id)) ELSE 0
    IN  IF byInv # 0 THEN [tx |-> byInv, raised |-> "", calls |-> <<>>]
        ELSE IF byRef # 0 THEN [tx |-> byRef, raised |-> "", calls |-> <<>>]
        ELSE IF payment_id # ""
        THEN LocateByPaymentId(T, P, StatusProviders(P), 1, payment_id, tape, <<>>)
        ELSE [tx |-> 0, raised |-> "ValidationError", calls |-> <<>>]

Cascade(T, P, notification_data, tape) ==
    LET reference == notification_data.CustomerReference
        payment_id == notification_data.paymentId
        invoice_id == notification_data.InvoiceId
        byRef == IF reference # "" THEN SearchByReference(T, reference) ELSE 0
        byInv == IF invoice_id # 0
                 THEN SearchByProviderReference(T, Str(invoice_id)) ELSE 0
    IN  IF byRef # 0 THEN [tx |-> byRef, raised |-> "", calls |-> <<>>]
        ELSE IF byInv # 0 THEN [tx |-> byInv, raised |-> "", calls |-> <<>>]
        ELSE IF payment_id # ""
        THEN LocateByPaymentId(T, P, StatusProviders(P), 1, payment_id, tape, <<>>)
        ELSE [tx |-> 0, raised |-> "ValidationError", calls |-> <<>>]

\* lines 214-218: the identifiers the error message names
NotFoundSilent(notification_data) == <<>>

NotFoundNames(notification_data) ==
    <<notification_data.CustomerReference, notification_data.paymentId,
      notification_data.InvoiceId>>

\* PaymentTransaction._get_tx_from_notification_data, called on the model
get_tx_from_notification_data(T, P, notification_data, tape) ==
    LET c == Cascade(T, P, notification_data, tape)
    IN  [tx |-> c.tx, raised |-> c.raised, calls |-> c.calls,
         named |-> IF c.raised # "" THEN NotFoundNames(notification_data) ELSE <<>>]

(***************************************************************************)
(* The body of a webhook request.  json.loads is modelled on a fixed-width *)
(* encoding of the event envelope:                                         *)
(*   <<123, evKey, ev, dataKind, inv, pay, ref, 125>>                      *)
(* evKey: 0 no event key, 1 "Event", 2 "EventType"; ev: index of the event *)
(* token; dataKind: 0 identifiers at the root, 1 in a "Data" object,       *)
(* 2 "Data" is a string; inv, pay, ref: indexes of InvoiceId, PaymentId    *)
(* and CustomerReference.  <<91, 93>> is the JSON list [], and every other *)
(* byte string is not JSON.                                                *)
(***************************************************************************)
EventTokens == <<"PAYMENT_STATUS_CHANGED", "TransactionStatusChanged",
                 "REFUND_STATUS_CHANGED", "RefundStatusChanged",
                 "BALANCE_TRANSFERRED", "BalanceTransferred", "SomethingElse">>
InvoiceIdTable == <<0, 101, 102, 109>>
PaymentIdTable == <<"", "pay1">>
ReferenceTable == <<"", "R1", "R2", "R9">>

Serialize(evKey, ev, dataKind, inv, pay, ref) ==
    <<123, evKey, ev, dataKind, inv, pay, ref, 125>>

NoDoc == [json |-> "ValueError", Event |-> "", hasEventType |-> FALSE,
          EventType |-> "", dataKind |-> 0, InvoiceId |-> 0, PaymentId |-> "",
          CustomerReference |-> ""]

JsonLoads(raw) ==
    IF raw = <<91, 93>> THEN [NoDoc EXCEPT !.json = "list"]
    ELSE IF Len(raw) = 8 /\ raw[1] = 123 /\ raw[8] = 125
            /\ raw[2] \in 0..2 /\ raw[3] \in 1..Len(EventTokens) /\ raw[4] \in 0..2
            /\ raw[5] \in 1..Len(InvoiceIdTable) /\ raw[6] \in 1..Len(PaymentIdTable)
            /\ raw[7] \in 1..Len(ReferenceTable)
    THEN [json |-> "dict",
          Event |-> IF raw[2] = 1 THEN EventTokens[raw[3]] ELSE "",
          hasEventType |-> raw[2] = 2,
          EventType |-> IF raw[2] = 2 THEN EventTokens[raw[3]] ELSE "",
          dataKind |-> raw[4],
          InvoiceId |-> InvoiceIdTable[raw[5]],
          PaymentId |-> PaymentIdTable[raw[6]],
          CustomerReference |-> ReferenceTable[raw[7]]]
    ELSE NoDoc

(***************************************************************************)
(* The controllers.  The outcome of a request is a record with the fields  *)
(* of Quiet: the response, and what the request did on the way.            *)
(***************************************************************************)
NoNotification == [CustomerReference |-> "", paymentId |-> "", InvoiceId |-> 0,
                   status |-> "", webhook_event |-> ""]

Quiet(T) == [txs |-> T, http |-> 0, message |-> "", searched |-> FALSE, verified |-> 0,
             matching_provider |-> 0, event_type |-> "", dispatched |-> FALSE,
             notification |-> NoNotification, locates |-> 0, located |-> 0,
             reconciles |-> 0, raised |-> "", lcalls |-> <<>>, rcalls |-> <<>>,
             primitives |-> <<>>, state_reads |-> 0, noted |-> 0]

\* _get_tx_from_notification_data followed by _handle_notification_data: the
\* framework's handler calls the locator again on the record found, which
\* returns it at once (line 150), and then the reconciler.  tape[3] is the
\* response to the reconciler's status request.
LocateAndHandle(T, P, notification_data, tape) ==
    LET loc == get_tx_from_notification_data(T, P, notification_data, tape)
        rec == process_notification_data(T, P, loc.tx, notification_data, tape[3])
    IN  IF loc.raised # ""
        THEN [Quiet(T) EXCEPT !.notification = notification_data, !.locates = 1,
                              !.raised = loc.raised, !.lcalls = loc.calls]
        ELSE [Quiet(rec.txs) EXCEPT !.notification = notification_data,
                                    !.locates = 1, !.located = loc.tx,
                                    !.reconciles = 1, !.raised = rec.raised,
                                    !.lcalls = loc.calls, !.rcalls = rec.calls,
                                    !.primitives = rec.primitives,
                                    !.state_reads = rec.state_reads]

\* a response that lets an exception of the reconciliation through
RedirectedUnlessRaised(o) ==
    IF o.raised # "" THEN [o EXCEPT !.http = 500, !.message = "Internal Server Error"]
    ELSE [o EXCEPT !.http = 303, !.message = "/payment/status"]

\* lines 63-69 and 107-113: the exception is logged and the handler returns
\* request.redirect('/payment/status')
Redirected(o) == [o EXCEPT !.http = 303, !.message = "/payment/status"]

\* a handler that does not look at the paymentId before it reconciles
RedirectHandlerNoCheck(T, P, payment_id, status, tape) ==
    Redirected(LocateAndHandle(T, P,
        [NoNotification EXCEPT !.paymentId = payment_id, !.status = status],
        tape))

\* lines 46-69 and 90-113: the body of the two redirect handlers; `status` is
\* the 'status' entry the handler puts in the notification
RedirectHandler(T, P, payment_id, status, tape) ==
    IF payment_id = "" THEN Redirected(Quiet(T))
    ELSE Redirected(LocateAndHandle(T, P,
             [NoNotification EXCEPT !.paymentId = payment_id, !.status = status],
             tape))

myfatoorah_return(T, P, payment_id, tape) ==
    RedirectHandler(T, P, payment_id, "success", tape)

myfatoorah_error(T, P, payment_id, tape) ==
    RedirectHandler(T, P, payment_id, "error", tape)

\* MyFatoorahController._process_webhook_event
process_webhook_event(T, P, event_type, doc, tape) ==
    LET invoice_id == doc.InvoiceId
        tx == IF invoice_id # 0
              THEN SearchByProviderReference(T, Str(invoice_id)) ELSE 0
    IN  IF doc.dataKind = 2
        THEN [Quiet(T) EXCEPT !.raised = "AttributeError"]
        ELSE IF event_type \in {"PAYMENT_STATUS_CHANGED", "TransactionStatusChanged"}
        THEN LocateAndHandle(T, P,
                 [NoNotification EXCEPT !.InvoiceId = invoice_id,
                                        !.paymentId = doc.PaymentId,
                                        !.CustomerReference = doc.CustomerReference,
                                        !.webhook_event = event_type],
                 tape)
        ELSE IF event_type \in {"REFUND_STATUS_CHANGED", "RefundStatusChanged"}
        THEN IF tx # 0
             THEN [Quiet([T EXCEPT ![tx].notes = @ + 1]) EXCEPT !.noted = tx]
             ELSE Quiet(T)
        ELSE Quiet(T)

\* the providers whose secret may authenticate a webhook: lines 166-170
WebhookProviders(P) ==
    SortedSeq({p \in ProviderIds : P[p].code = "myfatoorah"
                                   /\ P[p].state \in {"enabled", "test"}
                                   /\ P[p].myfatoorah_webhook_enabled})

\* lines 182-189: [result, provider, tried]; result is "True" when provider
\* verified the signature, "False" when none did, "TypeError" when a
\* verifier raised
RECURSIVE VerifyLoop(_, _, _, _, _)
VerifyLoop(P, cands, i, raw_body, signature) ==
    IF i > Len(cands) THEN [result |-> "False", provider |-> 0, tried |-> i - 1]
    ELSE LET v == myfatoorah_verify_webhook_signature(
                      P[cands[i]].myfatoorah_webhook_secret, raw_body, signature)
         IN  IF v = "False" THEN VerifyLoop(P, cands, i + 1, raw_body, signature)
             ELSE [result |-> v, provider |-> cands[i], tried |-> i]

\* the HTTP response of a handler
Responded(o, http, message) == [o EXCEPT !.http = http, !.message = message]

\* lines 200-218: the answer once the event was dispatched
AfterDispatch(o) ==
    IF o.raised # "" THEN Responded(o, 200, "Event received but processing failed")
    ELSE Responded(o, 200, "Event processed successfully")

\* lines 191-198: no candidate verified the signature
OnBadSignature(T, P, event_type, doc, tape, o) ==
    Responded(o, 401, "Invalid signature")

\* a handler of the parse error that answers only after the provider search
OnInvalidJsonContinue(T, P, raw_body, signature, tape) ==
    Responded([Quiet(T) EXCEPT !.searched = TRUE], 400, "Invalid JSON body")

\* lines 144-149: the body is not JSON
OnInvalidJson(T, P, raw_body, signature, tape) ==
    Responded(Quiet(T), 400, "Invalid JSON body")

\* MyFatoorahController.myfatoorah_webhook
myfatoorah_webhook(T, P, raw_body, signature, tape) ==
    LET doc == JsonLoads(raw_body)
        event_type == OrElse(doc.Event,
                             IF doc.hasEventType THEN doc.EventType ELSE "Unknown")
        cands == WebhookProviders(P)
        v == VerifyLoop(P, cands, 1, raw_body, signature)
        o == [Quiet(T) EXCEPT !.searched = TRUE, !.verified = v.tried,
                              !.event_type = event_type,
                              !.matching_provider = v.provider]
    IN  IF doc.json = "ValueError"
        THEN OnInvalidJson(T, P, raw_body, signature, tape)
        ELSE IF doc.json # "dict"
        THEN Responded([Quiet(T) EXCEPT !.raised = "AttributeError"],
                       500, "Internal Server Error")
        ELSE IF cands = <<>>
        THEN Responded([Quiet(T) EXCEPT !.searched = TRUE,
                                        !.event_type = event_type],
                       400, "No active webhook provider")
        ELSE IF v.result = "TypeError"
        THEN Responded([o EXCEPT !.raised = "TypeError"],
                       500, "Internal Server Error")
        ELSE IF v.result = "False"
        THEN OnBadSignature(T, P, event_type, doc, tape, o)
        ELSE AfterDispatch([process_webhook_event(T, P, event_type, doc, tape)
                               EXCEPT !.searched = TRUE, !.verified = v.tried,
                                      !.matching_provider = v.provider,
                                      !.event_type = event_type,
                                      !.dispatched = TRUE])

(***************************************************************************)
(* Inputs shared by the specifications.                                    *)
(***************************************************************************)
Provider(code, state, enabled, secret, key) ==
    [code |-> code, state |-> state, myfatoorah_webhook_enabled |-> enabled,
     myfatoorah_webhook_secret |-> secret, api_key |-> key]

Tx(reference, provider_reference, p, code) ==
    [reference |-> reference, provider_reference |-> provider_reference,
     state |-> "draft", state_message |-> NoMsg, provider_id |-> p,
     provider_code |-> code, notes |-> 0]

\* the transactions checkout has created: provider_reference is the invoice
\* id of the gateway, '' when the gateway returned none (line 130)
InitTxs(P) ==
    {[i \in TxIds |-> IF i = 1 THEN Tx("R1", r1, 1, P[1].code)
                              ELSE Tx("R2", "102", 2, P[2].code)] :
        r1 \in {"", "101"}}

\* the signature headers sent with a body: none, the signature under each
\* secret, and the signature under K1 with the top bit of a character set
Signatures(raw) ==
    {<<>>, HmacHex(K1, raw), HmacHex(K2, raw), FlipAt(HmacHex(K1, raw), 1, 7)}

\* tape[1], tape[2]: the responses to the locator's status requests;
\* tape[3]: the response to the reconciler's
DefaultResp == Failure("Timeout")
DefaultTape == <<DefaultResp, DefaultResp, DefaultResp>>

Tapes(L, R) == {<<a, b, c>> : a \in L, b \in L, c \in R}

\* a tape whose unread entries are the default: each run of a handler is
\* generated by one tape only
Canonical(P, tape, o) ==
    /\ \A i \in 1..2 :
          (\A c \in 1..Len(o.lcalls) :
               i > Len(StatusProviders(P))
               \/ o.lcalls[c].provider # StatusProviders(P)[i])
          => tape[i] = DefaultResp
    /\ o.rcalls = <<>> => tape[3] = DefaultResp

(***************************************************************************)
(* The state machine: one action per HTTP endpoint.                        *)
(***************************************************************************)
NoRequest == [kind |-> "none", raw_body |-> <<>>, signature |-> <<>>,
              paymentId |-> "", pre |-> <<>>, out |-> Quiet(<<>>)]

NoVerify == [secret |-> <<>>, raw_body |-> <<>>, signature |-> <<>>,
             result |-> "", called |-> FALSE]

NotesBounded(T) == \A i \in TxIds : T[i].notes <= MaxNotes

Complete(kind, raw_body, signature, payment_id, o) ==
    /\ NotesBounded(o.txs)
    /\ txs' = o.txs
    /\ last' = [kind |-> kind, raw_body |-> raw_body, signature |-> signature,
                paymentId |-> payment_id, pre |-> txs, out |-> o]
    /\ UNCHANGED <<providers, vcase, gw, req>>

\* the tapes a request is run with: the default alone when it sends no status
\* request under it (and then under none), and the default for the locator
\* when the locator sends none
RunTapes(o0, L, R) ==
    IF o0.lcalls = <<>> /\ o0.rcalls = <<>> THEN {DefaultTape}
    ELSE IF o0.lcalls = <<>> THEN {<<DefaultResp, DefaultResp, c>> : c \in R}
    ELSE Tapes(L, R)

\* POST /payment/myfatoorah/webhook
Webhook(B, L, R) ==
    \E raw \in B : \E sig \in Signatures(raw) :
        \E tape \in RunTapes(myfatoorah_webhook(txs, providers, raw, sig, DefaultTape), L, R) :
            LET o == myfatoorah_webhook(txs, providers, raw, sig, tape)
            IN  /\ Canonical(providers, tape, o)
                /\ Complete("webhook", raw, sig, "", o)

\* GET /payment/myfatoorah/return
Return(L, R) ==
    \E payment_id \in {"", "pay1"} :
        \E tape \in RunTapes(myfatoorah_return(txs, providers, payment_id, DefaultTape), L, R) :
            LET o == myfatoorah_return(txs, providers, payment_id, tape)
            IN  /\ Canonical(providers, tape, o)
                /\ Complete("return", <<>>, <<>>, payment_id, o)

\* GET /payment/myfatoorah/error
Error(L, R) ==
    \E payment_id \in {"", "pay1"} :
        \E tape \in RunTapes(myfatoorah_error(txs, providers, payment_id, DefaultTape), L, R) :
            LET o == myfatoorah_error(txs, providers, payment_id, tape)
            IN  /\ Canonical(providers, tape, o)
                /\ Complete("error", <<>>, <<>>, payment_id, o)

(***************************************************************************)
(* Spec: the webhook endpoint under every provider configuration.          *)
(***************************************************************************)
EndpointProviders ==
    {[p \in ProviderIds |-> IF p = 1 THEN a ELSE b] :
        a \in {Provider("myfatoorah", st, en, sec, TRUE) :
                  st \in {"enabled", "test", "disabled"}, en \in BOOLEAN,
                  sec \in {NoSecret, K1}},
        b \in {Provider("myfatoorah", "enabled", TRUE, K2, TRUE),
               Provider("myfatoorah", "disabled", TRUE, K2, TRUE),
               Provider("stripe", "enabled", TRUE, K2, TRUE)}}

\* bodies: not JSON, a JSON list, and event envelopes
WebhookBodies ==
    {<<120>>, <<91, 93>>,
     Serialize(1, 1, 1, 2, 2, 2), Serialize(1, 1, 1, 1, 2, 1),
     Serialize(1, 1, 1, 4, 1, 4), Serialize(2, 2, 0, 1, 1, 1),
     Serialize(1, 1, 2, 2, 2, 2), Serialize(1, 3, 1, 2, 2, 2),
     Serialize(2, 4, 1, 4, 1, 1), Serialize(1, 5, 1, 2, 2, 2),
     Serialize(0, 1, 1, 2, 2, 2), Serialize(1, 7, 1, 2, 2, 2),
     Serialize(1, 5, 2, 1, 1, 1)}

PaidR1 == Answer(200, TRUE, StatusData(101, "Paid", "R1", <<>>))

EndpointResponses == {Failure("Timeout"), Failure("JsonList"), PaidR1}

Init ==
    /\ providers \in EndpointProviders
    /\ txs \in InitTxs(providers)
    /\ last = NoRequest
    /\ vcase = NoVerify
    /\ gw = <<>>
    /\ req = <<>>

Next == Webhook(WebhookBodies, EndpointResponses, EndpointResponses)

Spec == Init /\ [][Next]_vars

(***************************************************************************)
(* SpecVerify: the signature verifier called directly.                     *)
(***************************************************************************)
RECURSIVE ByteStrings(_)
ByteStrings(n) ==
    IF n = 0 THEN {<<>>}
    ELSE ByteStrings(n - 1)
         \cup {Append(b, c) : b \in {x \in ByteStrings(n - 1) : Len(x) = n - 1},
                              c \in {123, 125}}

\* every string that differs from s in one bit
BitFlips(s) == {FlipAt(s, i, k) : i \in 1..Len(s), k \in 0..7}

VerifyBodies ==
    ByteStrings(MaxBodyLen) \cup UNION {BitFlips(b) : b \in ByteStrings(MaxBodyLen)}

\* no header, the signature of the body under every key, each of them with
\* one bit flipped or in upper case, and the signature of a body one bit away
VerifySignatures(body) ==
    LET good == {HmacHex(k, body) : k \in {NoSecret, K1, K2}}
    IN  {<<>>} \cup good \cup UNION {BitFlips(g) : g \in good}
        \cup {Upper(g) : g \in good}
        \cup {HmacHex(K1, b) : b \in BitFlips(body)}

\* one call of the verifier on the inputs the initial state holds
VerifyCall ==
    /\ ~vcase.called
    /\ vcase' = [vcase EXCEPT
                    !.result = myfatoorah_verify_webhook_signature(
                                   vcase.secret, vcase.raw_body, vcase.signature),
                    !.called = TRUE]
    /\ UNCHANGED <<providers, txs, last, gw, req>>

InitVerify ==
    /\ providers = [p \in ProviderIds |->
                       Provider("myfatoorah", "enabled", TRUE, K1, TRUE)]
    /\ txs = [i \in TxIds |-> Tx("R1", "", 1, "myfatoorah")]
    /\ last = NoRequest
    /\ \E secret \in {NoSecret, K1, K2} : \E body \in VerifyBodies :
         \E sig \in VerifySignatures(body) :
            vcase = [secret |-> secret, raw_body |-> body, signature |-> sig,
                     result |-> "", called |-> FALSE]
    /\ gw = <<>>
    /\ req = <<>>

NextVerify == VerifyCall

SpecVerify == InitVerify /\ [][NextVerify]_vars

(***************************************************************************)
(* SpecReconcile: the three endpoints with both providers active, under    *)
(* the status responses of the gateway.                                    *)
(***************************************************************************)
ReconcileProviders ==
    {[p \in ProviderIds |->
         IF p = 1 THEN Provider("myfatoorah", "enabled", TRUE, K1, key)
         ELSE Provider("myfatoorah", "test", FALSE, K2, TRUE)] : key \in BOOLEAN}

\* payment-status events: all identifiers, the invoice id alone, the
\* reference alone, the reference with the invoice id of another transaction
ReconcileBodies ==
    {Serialize(1, 1, 1, 2, 2, 2), Serialize(2, 2, 1, 2, 1, 1),
     Serialize(1, 1, 1, 1, 1, 2), Serialize(1, 1, 1, 3, 1, 2)}

Ok(data) == Answer(200, TRUE, data)

Declined == Entry("Failed", "Insufficient funds", "MF002")

\* what the locator may be told
LocatorResponses == {Failure("Timeout"), PaidR1}

\* what the reconciler may be told
StatusResponses ==
    {Failure(k) : k \in {"Timeout", "ConnectionError", "RequestException",
                         "NonJson", "JsonList"}}
    \cup {Answer(200, FALSE, PaidR1.Data), Answer(500, TRUE, PaidR1.Data),
          Ok([NoData EXCEPT !.shape = "null"])}
    \cup {Ok(StatusData(101, s, "R1", <<>>)) :
             s \in {"Paid", "PAID", "Pending", "Expired", "Failed",
                    "DuplicatePayment", ""}}
    \cup {Ok(StatusData(0, "Paid", "", <<>>)),
          Ok(StatusData(109, "Paid", "R1", <<>>)),
          Ok(StatusData(101, "Pending", "R1", <<Entry("Succss", "", "")>>)),
          Ok(StatusData(101, "Pending", "R1", <<Entry("Success", "", "")>>)),
          Ok(StatusData(101, "Paid", "R1", <<Declined>>)),
          Ok(StatusData(101, "", "R1", <<Declined>>)),
          Ok(StatusData(101, "", "R1", <<Entry("Succss", "", ""), Declined>>)),
          Ok(StatusData(101, "", "R1", <<Declined, Entry("Succss", "", "")>>)),
          Ok(StatusData(101, "", "R1", <<Entry("FAILED", "", "MF002")>>)),
          Ok(StatusData(101, "Pending", "R1", <<Declined, Entry("SUCCSS", "", "")>>))}

InitReconcile ==
    /\ providers \in ReconcileProviders
    /\ txs \in InitTxs(providers)
    /\ last = NoRequest
    /\ vcase = NoVerify
    /\ gw = <<>>
    /\ req = <<>>

NextReconcile ==
    \/ Webhook(ReconcileBodies, LocatorResponses, StatusResponses)
    \/ Return(LocatorResponses, StatusResponses)
    \/ Error(LocatorResponses, StatusResponses)

SpecReconcile == InitReconcile /\ [][NextReconcile]_vars

(***************************************************************************)
(* SpecRace: up to MaxRace requests for transaction 1 run concurrently,    *)
(* each request one step at a time: it locates the transaction, fetches    *)
(* the status, back-fills provider_reference and applies the transition.   *)
(* The gateway gives every status request of the race the same response,   *)
(* gw.  A step reads and writes the transaction store atomically: the      *)
(* store serialises the writes of a record.  last.pre keeps the            *)
(* transactions the race started from, and a request keeps in `seen` the   *)
(* state the transaction had when it fetched the status and in `applied`   *)
(* the state it had when the request called its transition primitive.      *)
(***************************************************************************)
RaceIds == 1..MaxRace

NoResult == [raised |-> "", data |-> NoData, sent |-> FALSE]

Idle == [pc |-> "idle", kind |-> "none", notification |-> NoNotification,
         tx |-> 0, seen |-> "", applied |-> "", result |-> NoResult,
         raised |-> ""]

\* the gateway's status of the payment during a race
RaceResponses ==
    {Ok(StatusData(101, s, "R1", <<>>)) :
        s \in {"Paid", "Pending", "Expired", "Failed", "DuplicatePayment"}}
    \cup {Ok(StatusData(101, "Pending", "R1", <<Entry("Succss", "", "")>>)),
          Failure("Timeout")}

\* the notifications of the three channels for the payment of transaction 1
RaceNotifications ==
    {[kind |-> k, notification |->
         [NoNotification EXCEPT !.paymentId = "pay1",
                                !.status = IF k = "return" THEN "success" ELSE "error"]] :
        k \in {"return", "error"}}
    \cup {[kind |-> "webhook", notification |->
              [NoNotification EXCEPT !.InvoiceId = 101, !.paymentId = pay,
                                     !.CustomerReference = ref,
                                     !.webhook_event = "PAYMENT_STATUS_CHANGED"]] :
             <<pay, ref>> \in {<<"", "">>, <<"", "R1">>, <<"pay1", "R1">>}}

RaceTape == <<gw, gw, gw>>

\* what one delivery of the notification, alone, makes of the transactions
\* the race started from
SingleDelivery(notification_data) ==
    LocateAndHandle(last.pre, providers, notification_data, RaceTape)

\* a request for transaction 1 arrives; requests are numbered in the order
\* of their arrival
RaceStart(r) ==
    /\ req[r].pc = "idle"
    /\ \A q \in RaceIds : q < r => req[q].pc # "idle"
    /\ \E m \in RaceNotifications :
          /\ SingleDelivery(m.notification).located = 1
          /\ req' = [req EXCEPT ![r] = [Idle EXCEPT !.pc = "locate", !.kind = m.kind,
                                                    !.notification = m.notification]]
    /\ UNCHANGED <<providers, txs, last, vcase, gw>>

\* main.py lines 57-62 and 248-251: the locator
RaceLocate(r) ==
    /\ req[r].pc = "locate"
    /\ LET loc == get_tx_from_notification_data(txs, providers, req[r].notification,
                                                RaceTape)
       IN  req' = [req EXCEPT ![r] =
                      IF loc.raised # ""
                      THEN [@ EXCEPT !.pc = "end", !.raised = loc.raised]
                      ELSE [@ EXCEPT !.pc = "fetch", !.tx = loc.tx]]
    /\ UNCHANGED <<providers, txs, last, vcase, gw>>

\* payment_transaction.py lines 232-261: the key and the status request
RaceFetch(r) ==
    /\ req[r].pc = "fetch"
    /\ LET t == txs[req[r].tx]
           k == StatusKey(t, req[r].notification)
       IN  IF t.provider_code # "myfatoorah" \/ k.key = ""
           THEN /\ txs' = process_notification_data(txs, providers, req[r].tx,
                                                    req[r].notification, gw).txs
                /\ req' = [req EXCEPT ![r].pc = "end"]
           ELSE /\ txs' = txs
                /\ req' = [req EXCEPT ![r].pc = "backfill", ![r].seen = t.state,
                                      ![r].result =
                                          myfatoorah_make_request(providers,
                                                                  t.provider_id, gw)]
    /\ UNCHANGED <<providers, last, vcase, gw>>

\* lines 263-271 when the status request raised, lines 280-283 otherwise
RaceBackfill(r) ==
    /\ req[r].pc = "backfill"
    /\ LET i == req[r].tx
           res == req[r].result
       IN  IF res.raised = "ValidationError"
           THEN /\ txs' = OnGatewayError(txs, i, <<>>).txs
                /\ req' = [req EXCEPT ![r].pc = "end"]
           ELSE IF res.raised # "" \/ res.data.shape # "dict"
           THEN /\ txs' = txs
                /\ req' = [req EXCEPT ![r].pc = "end", ![r].raised = "AttributeError"]
           ELSE /\ txs' = [txs EXCEPT ![i].provider_reference =
                              ApplyStatus(txs, i, req[r].notification,
                                          res.data).txs[i].provider_reference]
                /\ req' = [req EXCEPT ![r].pc = "transition"]
    /\ UNCHANGED <<providers, last, vcase, gw>>

\* lines 285-325: the transition primitive
RaceTransition(r) ==
    /\ req[r].pc = "transition"
    /\ txs' = ApplyStatus(txs, req[r].tx, req[r].notification, req[r].result.data).txs
    /\ req' = [req EXCEPT ![r].pc = "end", ![r].applied = txs[req[r].tx].state]
    /\ UNCHANGED <<providers, last, vcase, gw>>

RaceStates == {"draft", "pending", "done", "cancel", "error"}

InitRace ==
    /\ providers \in ReconcileProviders
    /\ gw \in RaceResponses
    /\ \E t0 \in InitTxs(providers) : \E st \in RaceStates :
          txs = [t0 EXCEPT ![1].state = st]
    /\ last = [NoRequest EXCEPT !.pre = txs]
    /\ vcase = NoVerify
    /\ req = [r \in RaceIds |-> Idle]

NextRace ==
    \E r \in RaceIds :
        \/ RaceStart(r)
        \/ RaceLocate(r)
        \/ RaceFetch(r)
        \/ RaceBackfill(r)
        \/ RaceTransition(r)

SpecRace == InitRace /\ [][NextRace]_vars

(***************************************************************************)
(* SpecStale: the race of SpecRace while the payment settles.  The gateway *)
(* reports the invoice as pending or initiated when the race begins and as *)
(* paid from some moment on; a request applies the status it fetched,      *)
(* however long ago.                                                       *)
(***************************************************************************)
\* the statuses of an invoice that is not paid yet
StaleResponses ==
    {Ok(StatusData(101, s, "R1", <<>>)) : s \in {"Pending", "Initiated"}}
    \cup {Ok(StatusData(101, "Pending", "R1", <<Entry("InProgress", "", "")>>))}

\* the customer pays: the gateway reports the invoice as paid from now on
GatewaySettles ==
    /\ gw \in StaleResponses
    /\ gw' = Ok(StatusData(101, "Paid", "R1",
                           IF gw.Data.InvoiceTransactions = <<>> THEN <<>>
                           ELSE <<Entry("Succss", "", "")>>))
    /\ UNCHANGED <<providers, txs, last, vcase, req>>

InitStale ==
    /\ providers \in ReconcileProviders
    /\ gw \in StaleResponses
    /\ \E t0 \in InitTxs(providers) : \E st \in RaceStates :
          txs = [t0 EXCEPT ![1].state = st]
    /\ last = [NoRequest EXCEPT !.pre = txs]
    /\ vcase = NoVerify
    /\ req = [r \in RaceIds |-> Idle]

NextStale == GatewaySettles \/ NextRace

SpecStale == InitStale /\ [][NextStale]_vars

(***************************************************************************)
(* SpecOwner: webhooks and redirects for the transactions of two providers *)
(* of this gateway, each with its own webhook secret and API key.          *)
(***************************************************************************)
OwnerProviders ==
    {[p \in ProviderIds |->
         IF p = 1 THEN Provider("myfatoorah", "enabled", TRUE, K1, TRUE)
         ELSE Provider("myfatoorah", "test", en2, K2, key)] :
        en2 \in BOOLEAN, key \in BOOLEAN}

\* payment-status events: the invoice id of transaction 2, the paymentId
\* alone, the reference of transaction 1
OwnerBodies ==
    {Serialize(1, 1, 1, 3, 1, 1), Serialize(1, 1, 1, 1, 2, 1),
     Serialize(1, 1, 1, 1, 1, 2)}

PaidR2 == Ok(StatusData(102, "Paid", "R2", <<>>))

OwnerLocatorResponses == {Failure("Timeout"), PaidR1, PaidR2}

OwnerStatusResponses == {Failure("Timeout"), PaidR1, PaidR2}

InitOwner ==
    /\ providers \in OwnerProviders
    /\ txs \in InitTxs(providers)
    /\ last = NoRequest
    /\ vcase = NoVerify
    /\ gw = <<>>
    /\ req = <<>>

NextOwner ==
    \/ Webhook(OwnerBodies, OwnerLocatorResponses, OwnerStatusResponses)
    \/ Return(OwnerLocatorResponses, OwnerStatusResponses)

SpecOwner == InitOwner /\ [][NextOwner]_vars

(***************************************************************************)
(* SpecLocate: the locator called on the model, as the controllers call    *)
(* it, once, under every notification and every pair of answers of the     *)
(* gateway.  gw keeps the tape of the call.                                *)
(***************************************************************************)
LocateProviders ==
    {[p \in ProviderIds |->
         IF p = 1 THEN Provider("myfatoorah", st1, TRUE, K1, key)
         ELSE Provider("myfatoorah", st2, FALSE, K2, TRUE)] :
        st1 \in {"enabled", "disabled"}, key \in BOOLEAN, st2 \in {"test", "disabled"}}

LocateNotifications ==
    {[NoNotification EXCEPT !.CustomerReference = ref, !.InvoiceId = inv,
                            !.paymentId = pay] :
        ref \in {"", "R1", "R9"}, inv \in {0, 101, 102, 109}, pay \in {"", "pay1"}}

\* what the gateway may tell the locator about a payment
LookupResponses ==
    {Failure("Timeout"), Failure("JsonList"), Ok([NoData EXCEPT !.shape = "null"]),
     Ok(StatusData(101, "Paid", "R1", <<>>)), Ok(StatusData(102, "Paid", "", <<>>)),
     Ok(StatusData(109, "Paid", "R9", <<>>)), Ok(StatusData(102, "Pending", "R1", <<>>))}

\* the outcome of a direct call of the locator
Located(T, notification_data, loc) ==
    [named |-> loc.named]
    @@ [Quiet(T) EXCEPT !.notification = notification_data, !.locates = 1,
                        !.located = loc.tx, !.raised = loc.raised,
                        !.lcalls = loc.calls]

Locate ==
    \E n \in LocateNotifications : \E a, b \in LookupResponses :
        LET tape == <<a, b, DefaultResp>>
            loc == get_tx_from_notification_data(txs, providers, n, tape)
        IN  /\ last.kind = "none"
            /\ gw' = tape
            /\ last' = [kind |-> "locate", raw_body |-> <<>>, signature |-> <<>>,
                        paymentId |-> n.paymentId, pre |-> txs,
                        out |-> Located(txs, n, loc)]
            /\ UNCHANGED <<providers, txs, vcase, req>>

InitLocate ==
    /\ providers \in LocateProviders
    /\ txs \in InitTxs(providers)
    /\ last = NoRequest
    /\ vcase = NoVerify
    /\ gw = DefaultTape
    /\ req = <<>>

NextLocate == Locate

SpecLocate == InitLocate /\ [][NextLocate]_vars

(***************************************************************************)
(* SpecInvoice: the items of the SendPayment payload.  Money is an integer *)
(* number of ten-thousandths, a quantity an integer number of tenths.  An  *)
(* order line is [product, name, price_unit, product_uom_qty], product ''  *)
(* for a line without product; order_lines lists the lines of the          *)
(* transaction's sale orders, in order.                                    *)
(***************************************************************************)
\* round(x, 3), in ten-thousandths; the amounts enumerated have no tie
Round3(x) == IF x >= 0 THEN ((x + 5) \div 10) * 10 ELSE 0 - (((0 - x) + 5) \div 10) * 10

\* int(q) of a quantity that is not negative
IntOf(q) == q \div 10

Item(name, quantity, unit_price) ==
    [ItemName |-> name, Quantity |-> quantity, UnitPrice |-> unit_price]

\* an item for every line, whatever its product and price
RECURSIVE ItemsOfEveryLine(_)
ItemsOfEveryLine(lines) ==
    IF lines = <<>> THEN <<>>
    ELSE LET line == Head(lines)
         IN  <<Item(OrElse(OrElse(line.product, line.name), "Product"),
                    IF IntOf(line.product_uom_qty) # 0
                    THEN IntOf(line.product_uom_qty) ELSE 1,
                    Round3(line.price_unit))>>
             \o ItemsOfEveryLine(Tail(lines))

\* lines 46-55: the items of the order lines
RECURSIVE ItemsOfLines(_)
ItemsOfLines(lines) ==
    IF lines = <<>> THEN <<>>
    ELSE LET line == Head(lines)
         IN  (IF line.product # "" /\ line.price_unit > 0
              THEN <<Item(OrElse(OrElse(line.product, line.name), "Product"),
                          IF IntOf(line.product_uom_qty) # 0
                          THEN IntOf(line.product_uom_qty) ELSE 1,
                          Round3(line.price_unit))>>
              ELSE <<>>)
             \o ItemsOfLines(Tail(lines))

\* lines 45-61: payload['InvoiceItems'] of transaction t
InvoiceItems(t) ==
    LET invoice_items == ItemsOfLines(t.order_lines)
    IN  IF invoice_items = <<>>
        THEN <<Item(OrElse(t.reference, "Payment"), 1, Round3(t.amount))>>
        ELSE invoice_items

OrderLines ==
    [product : {"", "Widget"}, name : {"Line"}, price_unit : {0, 25007, 105000},
     product_uom_qty : {5, 20}]

RECURSIVE LinesUpTo(_)
LinesUpTo(n) ==
    IF n = 0 THEN {<<>>}
    ELSE LinesUpTo(n - 1)
         \cup {Append(l, x) : l \in {m \in LinesUpTo(n - 1) : Len(m) = n - 1},
                              x \in OrderLines}

NoItems == <<>>

\* PaymentTransaction._get_specific_processing_values builds the payload
CreateInvoice ==
    /\ ~req.created
    /\ req' = [req EXCEPT !.created = TRUE, !.InvoiceItems = InvoiceItems(req)]
    /\ UNCHANGED <<providers, txs, last, vcase, gw>>

InitInvoice ==
    /\ providers \in ReconcileProviders
    /\ txs \in InitTxs(providers)
    /\ last = NoRequest
    /\ vcase = NoVerify
    /\ gw = <<>>
    /\ \E ref \in {"R1", "R2"}, amount \in {105000, 130000}, lines \in LinesUpTo(MaxLines) :
          req = [reference |-> ref, amount |-> amount, order_lines |-> lines,
                 created |-> FALSE, InvoiceItems |-> NoItems]

NextInvoice == CreateInvoice

SpecInvoice == InitInvoice /\ [][NextInvoice]_vars

(***************************************************************************)
(* What the claims speak of.                                               *)
(***************************************************************************)
\* the body parses as JSON
ValidJson(raw) == JsonLoads(raw).json # "ValueError"

\* the providers of this gateway that are enabled or in test mode and have
\* webhooks enabled
CandidateSet(P) ==
    {p \in ProviderIds : /\ P[p].code = "myfatoorah"
                         /\ P[p].state \in {"enabled", "test"}
                         /\ P[p].myfatoorah_webhook_enabled}

\* sig is the hexadecimal HMAC of raw under a secret that is set
ValidatesUnder(secret, raw, sig) == secret # <<>> /\ sig = HmacHex(secret, raw)

AuthenticCandidates(P, raw, sig) ==
    {p \in CandidateSet(P) : ValidatesUnder(P[p].myfatoorah_webhook_secret, raw, sig)}

\* the request did nothing beyond answering
NoDispatch(o) ==
    /\ ~o.dispatched /\ o.locates = 0 /\ o.reconciles = 0
    /\ o.lcalls = <<>> /\ o.rcalls = <<>> /\ o.primitives = <<>> /\ o.noted = 0

\* C1: a webhook with a JSON body, at least one candidate provider and a
\* signature that validates under no candidate's secret is answered 401 and
\* dispatches nothing: no locator, reconciler or gateway call, and no
\* transaction is changed.
C1_BadSignatureIs401 ==
    (/\ last.kind = "webhook"
     /\ ValidJson(last.raw_body)
     /\ CandidateSet(providers) # {}
     /\ AuthenticCandidates(providers, last.raw_body, last.signature) = {})
    => (/\ last.out.http = 401
        /\ NoDispatch(last.out)
        /\ txs = last.pre)

\* C2: a webhook with a JSON body and a signature that validates under some
\* candidate's secret is answered 200; when the locator or the reconciler
\* raised, the message is 'received but processing failed' and every
\* transaction's state is unchanged or error.
C2_AuthenticatedIs200 ==
    (/\ last.kind = "webhook"
     /\ ValidJson(last.raw_body)
     /\ AuthenticCandidates(providers, last.raw_body, last.signature) # {})
    => (/\ last.out.http = 200
        /\ last.out.raised # ""
           => /\ last.out.message = "Event received but processing failed"
              /\ \A i \in TxIds : txs[i].state \in {last.pre[i].state, "error"})

\* C3: a webhook whose body is not JSON is answered 400 and stops there: no
\* provider lookup, no signature verification, no dispatch, no transaction
\* changed.
C3_MalformedJsonIs400 ==
    (last.kind = "webhook" /\ ~ValidJson(last.raw_body))
    => (/\ last.out.http = 400
        /\ ~last.out.searched
        /\ last.out.verified = 0
        /\ NoDispatch(last.out)
        /\ txs = last.pre)

\* a body that is not JSON arrived with the signature a candidate provider
\* accepts
C3_Witness ==
    /\ last.kind = "webhook" /\ ~ValidJson(last.raw_body)
    /\ AuthenticCandidates(providers, last.raw_body, last.signature) # {}
    /\ last.out.http = 400

\* C4: only a candidate provider's secret authenticates a webhook, and with
\* no candidate provider the webhook is answered 400 without signature
\* verification or dispatch, whatever secret the signature validates under.
C4_OnlyCandidatesAuthenticate ==
    /\ (last.kind = "webhook" /\ last.out.dispatched)
       => last.out.matching_provider
             \in AuthenticCandidates(providers, last.raw_body, last.signature)
    /\ (last.kind = "webhook" /\ CandidateSet(providers) = {})
       => (/\ last.out.http = 400
           /\ last.out.verified = 0
           /\ NoDispatch(last.out)
           /\ txs = last.pre)

\* C5: with a secret that is set, verify returns true exactly when the
\* signature is the hexadecimal HMAC of the body under the secret, and false
\* for every other signature and for the signature of every other body.
C5_VerifyIffHmac ==
    (vcase.called /\ vcase.secret # <<>>)
    => (/\ vcase.result = "True"
           <=> vcase.signature = HmacHex(vcase.secret, vcase.raw_body)
        /\ vcase.signature # HmacHex(vcase.secret, vcase.raw_body)
           => vcase.result = "False")

\* C6: with an empty or unset secret verify returns false, whatever the body
\* and the signature.
C6_EmptySecretNeverVerifies ==
    (vcase.called /\ vcase.secret = <<>>) => vcase.result = "False"

\* the signature is the HMAC of the body under the empty key
C6_Witness ==
    /\ vcase.called /\ vcase.secret = <<>>
    /\ vcase.signature = HmacHex(<<>>, vcase.raw_body)
    /\ vcase.result = "False"

\* the request ran the reconciler on transaction i
Reconciled(i) == last.out.reconciles = 1 /\ last.out.located = i

\* the response the reconciler received
StatusResponse == last.out.rcalls[1].resp

\* a status result that reports the payment as paid
SaysPaid(resp) ==
    /\ resp.kind = "Json" /\ resp.http = 200 /\ resp.IsSuccess
    /\ resp.Data.shape = "dict"
    /\ \/ Lower(resp.Data.InvoiceStatus) = "paid"
       \/ /\ resp.Data.InvoiceTransactions # <<>>
          /\ Lower(resp.Data.InvoiceTransactions[
                      Len(resp.Data.InvoiceTransactions)].TransactionStatus) = "succss"

\* the notifications of the three channels that carry an identifier
ChannelNotifications ==
    {n \in [CustomerReference : {"", "R1"}, paymentId : {"", "pay1"},
            InvoiceId : {0, 101, 109}, status : {"", "success", "error"},
            webhook_event : {"", "PAYMENT_STATUS_CHANGED", "TransactionStatusChanged"}] :
        /\ n.paymentId # "" \/ n.InvoiceId # 0
        /\ n.status # "" => (n.webhook_event = "" /\ n.InvoiceId = 0
                             /\ n.CustomerReference = "")}

\* C7: the transition reconcile applies is determined by the gateway's status
\* response alone: on the same transaction and the same response, the
\* notification of any channel (success redirect, failure redirect, webhook)
\* leads to the same primitive and the same transaction; and a transaction
\* becomes done only in a reconcile whose status response reports it paid.
C7_StatusFromGatewayOnly ==
    \A i \in TxIds :
        /\ (Reconciled(i) /\ last.out.rcalls # <<>>)
           => \A n \in ChannelNotifications :
                 LET other == process_notification_data(last.pre, providers, i, n,
                                                        StatusResponse)
                 IN  /\ other.txs = txs
                     /\ other.primitives = last.out.primitives
                     /\ other.raised = last.out.raised
        /\ (last.kind # "none" /\ txs[i].state = "done" /\ last.pre[i].state # "done")
           => (Reconciled(i) /\ last.out.rcalls # <<>> /\ SaysPaid(StatusResponse))

\* the failure redirect moved a transaction to done, because the gateway
\* reported it paid
C7_Witness ==
    /\ last.kind = "error" /\ Reconciled(1)
    /\ last.out.notification.status = "error"
    /\ last.pre[1].state = "draft" /\ txs[1].state = "done"
    /\ SaysPaid(StatusResponse)

\* the reconciler received 'Paid' with an empty transaction list
PaidEmpty ==
    /\ last.out.rcalls # <<>>
    /\ StatusResponse.kind = "Json" /\ StatusResponse.http = 200
    /\ StatusResponse.IsSuccess /\ StatusResponse.Data.shape = "dict"
    /\ StatusResponse.Data.InvoiceStatus = "Paid"
    /\ StatusResponse.Data.InvoiceTransactions = <<>>

\* reconcile once more, with the notification of any channel and the same
\* response, leaves every transaction as it is
ReappliedUnchanged(i) ==
    \A n \in ChannelNotifications :
        process_notification_data(txs, providers, i, n, StatusResponse).txs = txs

\* C8 as claimed: on 'Paid' with an empty list reconcile moves the
\* transaction to done, and reconciling again with the same response changes
\* nothing.
C8_PaidAlwaysDone ==
    \A i \in TxIds :
        (Reconciled(i) /\ PaidEmpty)
        => (txs[i].state = "done" /\ ReappliedUnchanged(i))

\* C8 as amended: on 'Paid' with an empty list reconcile invokes set-done
\* once, which moves a draft, pending or error transaction to done, leaves a
\* done one done and a canceled one canceled; reconciling again with the
\* same response changes no field of any transaction.
C8_PaidIdempotent ==
    \A i \in TxIds :
        (Reconciled(i) /\ PaidEmpty)
        => /\ last.out.primitives = <<"set_done">>
           /\ txs[i].state = IF last.pre[i].state = "cancel" THEN "cancel" ELSE "done"
           /\ ReappliedUnchanged(i)

\* a second reconcile with 'Paid' and an empty list found the transaction
\* done and changed nothing
C8_Witness ==
    /\ Reconciled(1) /\ PaidEmpty
    /\ last.pre[1].state = "done" /\ txs = last.pre

\* the reconciler's status call failed with a gateway error: a missing API
\* key, a timeout, an unreachable gateway, a body that is not JSON or is JSON
\* but no object, an HTTP error or a response whose IsSuccess is false
GatewayFailed ==
    /\ last.out.reconciles = 1
    /\ \/ /\ ~providers[txs[last.out.located].provider_id].api_key
          /\ StatusKey(last.pre[last.out.located], last.out.notification).key # ""
       \/ /\ last.out.rcalls # <<>>
          /\ \/ StatusResponse.kind \in {"Timeout", "ConnectionError",
                                         "RequestException", "NonJson", "JsonList"}
             \/ /\ StatusResponse.kind = "Json"
                /\ (StatusResponse.http # 200 \/ ~StatusResponse.IsSuccess)

\* C10: when the status call of reconcile fails with a gateway error, the
\* transaction is in error afterwards, no exception leaves reconcile and no
\* second status request is sent in that reconcile.
C10_GatewayErrorSetsError ==
    GatewayFailed
    => (/\ txs[last.out.located].state = "error"
        /\ last.out.raised = ""
        /\ Len(last.out.rcalls) <= 1)

\* the requests of the race that have arrived
Arrived == {r \in DOMAIN req : req[r].pc # "idle"}

\* every request that arrived has run to its end
RaceOver == Arrived # {} /\ \A r \in Arrived : req[r].pc = "end"

GotStatus ==
    /\ last.out.reconciles = 1 /\ last.out.rcalls # <<>>
    /\ StatusResponse.kind = "Json" /\ StatusResponse.http = 200
    /\ StatusResponse.IsSuccess /\ StatusResponse.Data.shape = "dict"

\* the entries of the status result, and the last of them
Entries == StatusResponse.Data.InvoiceTransactions
LastEntry == Entries[Len(Entries)]

\* the row of the mapping table for an invoice-level status inv and an
\* effective status eff, both in lower case
RowOf(inv, eff) ==
    IF inv = "paid" \/ eff = "succss" THEN "set_done"
    ELSE IF {inv, eff} \cap {"pending", "initiated"} # {} THEN "set_pending"
    ELSE IF {inv, eff} \cap {"expired", "canceled"} # {} THEN "set_canceled"
    ELSE "set_error"

\* C11 as claimed: with a non-empty transaction list the transition applied
\* is the one the table assigns to the last entry's TransactionStatus,
\* regardless of the invoice-level status; with an empty list it is the one
\* of the InvoiceStatus.
C11_LastEntryAlone ==
    GotStatus
    => LET eff == IF Entries # <<>> THEN Lower(LastEntry.TransactionStatus)
                  ELSE Lower(StatusResponse.Data.InvoiceStatus)
       IN  last.out.primitives = <<RowOf(eff, eff)>>

\* C11 as amended: the effective status is the last entry's
\* TransactionStatus when the list is non-empty and the InvoiceStatus when it
\* is empty, and the transition applied is the first row of the table that
\* the invoice-level status or the effective status matches: an invoice-level
\* status of an earlier row takes precedence over the last entry's.
C11_EffectiveStatusIsLastEntry ==
    GotStatus
    => LET inv == Lower(StatusResponse.Data.InvoiceStatus)
           eff == IF Entries # <<>> THEN Lower(LastEntry.TransactionStatus) ELSE inv
       IN  last.out.primitives = <<RowOf(inv, eff)>>

\* a list of two entries, success then failure, was mapped by its last entry
\* and moved the transaction to error
C11_Witness ==
    /\ GotStatus /\ Len(Entries) = 2
    /\ Entries[1].TransactionStatus = "Succss"
    /\ LastEntry.TransactionStatus = "Failed"
    /\ last.out.primitives = <<"set_error">>
    /\ last.pre[last.out.located].state = "draft"
    /\ txs[last.out.located].state = "error"

\* the status result's transaction list ends with a failed entry
LastEntryFailed ==
    GotStatus /\ Entries # <<>> /\ Lower(LastEntry.TransactionStatus) = "failed"

\* the failure message built from the last entry: its Error text, or its
\* ErrorCode when the Error text is empty
FailureMessage == Msg("Payment failed.", OrElse(LastEntry.Error, LastEntry.ErrorCode))

\* C12 as claimed: when the transaction list ends with a 'Failed' entry (in
\* any letter case), reconcile moves the transaction to error with a message
\* that contains the entry's Error text, or its ErrorCode when the Error
\* text is empty.
C12_FailedEntryIsError ==
    LastEntryFailed
    => /\ txs[last.out.located].state = "error"
       /\ txs[last.out.located].state_message = FailureMessage

\* C12 as amended: when the transaction list ends with a 'Failed' entry and
\* the invoice-level status is none of paid, pending, initiated, expired and
\* canceled, reconcile invokes set-error once with a message that contains
\* the entry's Error text, or its ErrorCode when the Error text is empty;
\* that moves a draft or pending transaction to error with this message and
\* leaves a done, canceled or error transaction as it is.
C12_FailedEntryInvokesSetError ==
    (/\ LastEntryFailed
     /\ Lower(StatusResponse.Data.InvoiceStatus)
            \notin {"paid", "pending", "initiated", "expired", "canceled"})
    => LET i == last.out.located
       IN  /\ last.out.primitives = <<"set_error">>
           /\ txs[i] = set_error([last.pre[i] EXCEPT !.provider_reference =
                                                        txs[i].provider_reference],
                                 FailureMessage)
           /\ last.pre[i].state \in {"draft", "pending"}
              => (txs[i].state = "error" /\ txs[i].state_message = FailureMessage)

\* a last entry 'FAILED' with no Error text moved a draft transaction to
\* error with the entry's ErrorCode in the message
C12_Witness ==
    /\ LastEntryFailed
    /\ LastEntry.TransactionStatus = "FAILED" /\ LastEntry.Error = ""
    /\ last.pre[last.out.located].state = "draft"
    /\ txs[last.out.located].state = "error"
    /\ txs[last.out.located].state_message = Msg("Payment failed.", "MF002")

\* C13: every reconcile call on a transaction of this gateway invokes
\* exactly one of the four transition primitives, on every path.
C13_ExactlyOnePrimitive ==
    last.out.reconciles = 1
    => /\ Len(last.out.primitives) = 1
       /\ last.out.primitives[1] \in {"set_done", "set_pending", "set_canceled",
                                      "set_error"}

\* the locator was called directly
LocatorCalled == last.kind = "locate"

\* the notification of the last call, and what tiers 1 and 2 find for it
Notified == last.out.notification
ByReference ==
    IF Notified.CustomerReference = "" THEN {}
    ELSE {i \in TxIds : txs[i].reference = Notified.CustomerReference}
ByInvoiceId ==
    IF Notified.InvoiceId = 0 THEN {}
    ELSE {i \in TxIds : txs[i].provider_reference = ToString(Notified.InvoiceId)}

\* C14: locate returns the match of the first tier that hits, CustomerReference
\* before InvoiceId before paymentId, and a hit of tier 1 or tier 2 makes
\* no gateway call.
C14_FirstTierWins ==
    LocatorCalled
    => /\ ByReference # {}
          => (last.out.located \in ByReference /\ last.out.lcalls = <<>>
              /\ last.out.raised = "")
       /\ (ByReference = {} /\ ByInvoiceId # {})
          => (last.out.located \in ByInvoiceId /\ last.out.lcalls = <<>>
              /\ last.out.raised = "")
       /\ last.out.lcalls # <<>>
          => (ByReference = {} /\ ByInvoiceId = {} /\ Notified.paymentId # "")

\* the CustomerReference matched transaction 1, the InvoiceId transaction 2,
\* and transaction 1 was returned without a gateway call
C14_Witness ==
    /\ LocatorCalled
    /\ ByReference = {1} /\ ByInvoiceId = {2}
    /\ last.out.located = 1 /\ last.out.lcalls = <<>>

\* tier 3 was reached: tiers 1 and 2 found nothing and there is a paymentId
Tier3Reached ==
    LocatorCalled /\ ByReference = {} /\ ByInvoiceId = {} /\ Notified.paymentId # ""

\* the providers a status request can be sent for, in the order asked
Keyed == SelectSeq(StatusProviders(providers), LAMBDA p : providers[p].api_key)

\* the transaction the identifiers of a response match, 0 when the response
\* is an error or matches none
MatchOf(resp) ==
    IF resp.kind = "Json" /\ resp.http = 200 /\ resp.IsSuccess
       /\ resp.Data.shape = "dict"
    THEN LET byRef == {i \in TxIds : resp.Data.CustomerReference # ""
                                     /\ txs[i].reference = resp.Data.CustomerReference}
             byInv == {i \in TxIds : resp.Data.InvoiceId # 0
                                     /\ txs[i].provider_reference
                                            = ToString(resp.Data.InvoiceId)}
         IN  IF byRef # {} THEN CHOOSE i \in byRef : TRUE
             ELSE IF byInv # {} THEN CHOOSE i \in byInv : TRUE
             ELSE 0
    ELSE 0

\* C15: in tier 3 the providers are asked one after another with the
\* paymentId; a provider whose call errors or whose response matches nothing
\* is passed over, the first response that matches decides, by reference
\* before InvoiceId, and no later provider is asked.
C15_FirstMatchingProvider ==
    Tier3Reached
    => LET calls == last.out.lcalls
           n == Len(calls)
       IN  /\ n <= Len(Keyed)
           /\ \A k \in 1..n :
                 /\ calls[k].provider = Keyed[k]
                 /\ calls[k].Key = Notified.paymentId
                 /\ calls[k].KeyType = "PaymentId"
                 /\ k < n => MatchOf(calls[k].resp) = 0
           /\ last.out.located # 0
              => (n >= 1 /\ MatchOf(calls[n].resp) = last.out.located
                  /\ last.out.raised = "")
           /\ last.out.located = 0
              => (/\ n = Len(Keyed)
                  /\ n >= 1 => MatchOf(calls[n].resp) = 0
                  /\ last.out.raised = "ValidationError")

\* the payload carried only a paymentId, the status call of the first
\* provider timed out and the response of the second named reference R1:
\* transaction 1 was returned after two calls
C15_Witness ==
    /\ Tier3Reached
    /\ Notified.CustomerReference = "" /\ Notified.InvoiceId = 0
    /\ Len(last.out.lcalls) = 2
    /\ last.out.lcalls[1].resp.kind = "Timeout"
    /\ last.out.lcalls[2].resp.Data.CustomerReference = "R1"
    /\ last.out.located = 1

\* no tier of the cascade matches: the local lookups find nothing, and there
\* is no paymentId or no provider whose answer on the tape matches
NoTierMatches ==
    /\ LocatorCalled /\ ByReference = {} /\ ByInvoiceId = {}
    /\ \/ Notified.paymentId = ""
       \/ \A k \in 1..Len(StatusProviders(providers)) :
             \/ ~providers[StatusProviders(providers)[k]].api_key
             \/ MatchOf(gw[k]) = 0

\* C16: when no tier matches, locate fails with the not-found error that
\* names the CustomerReference, the paymentId and the InvoiceId of the
\* notification, returns no transaction and changes none; and it fails in
\* no other case.
C16_NotFoundNamesIdentifiers ==
    LocatorCalled
    => /\ NoTierMatches
          => /\ last.out.raised = "ValidationError"
             /\ last.out.located = 0
             /\ last.out.named = <<Notified.CustomerReference, Notified.paymentId,
                                   Notified.InvoiceId>>
             /\ txs = last.pre
       /\ last.out.raised # "" => NoTierMatches

\* all three identifiers were given, none matched locally, both providers
\* were asked and neither answer matched: the error names the three
C16_Witness ==
    /\ NoTierMatches
    /\ Len(last.out.lcalls) = 2
    /\ last.out.raised = "ValidationError"
    /\ last.out.named = <<"R9", "pay1", 109>>

\* the last request was a success or failure redirect
RedirectRequest == last.kind \in {"return", "error"}

\* C17: a redirect request without paymentId redirects to the status page
\* without calling the locator, the reconciler or the gateway, and leaves
\* every transaction unchanged.
C17_NoPaymentIdNoReconcile ==
    (RedirectRequest /\ last.paymentId = "")
    => /\ last.out.http = 303 /\ last.out.message = "/payment/status"
       /\ last.out.locates = 0 /\ last.out.reconciles = 0
       /\ last.out.lcalls = <<>> /\ last.out.rcalls = <<>>
       /\ last.out.primitives = <<>>
       /\ txs = last.pre

\* a failure redirect without paymentId was answered with the redirect,
\* after an earlier request had settled transaction 1
C17_Witness ==
    /\ last.kind = "error" /\ last.paymentId = ""
    /\ last.out.http = 303 /\ last.out.locates = 0
    /\ txs[1].state = "done"

\* C18: every success or failure redirect request ends with the redirect to
\* the status page, whatever the locator and the reconciler raise.
C18_AlwaysRedirects ==
    RedirectRequest
    => (last.out.http = 303 /\ last.out.message = "/payment/status")

\* the reconciler of a success redirect raised, and the request still ended
\* with the redirect
C18_Witness ==
    /\ last.kind = "return" /\ last.out.reconciles = 1
    /\ last.out.raised = "AttributeError"
    /\ last.out.http = 303 /\ last.out.message = "/payment/status"

\* the last request was a webhook that passed authentication and whose
\* event was dispatched
AuthenticatedEvent == last.kind = "webhook" /\ last.out.dispatched

PaymentEvents == {"PAYMENT_STATUS_CHANGED", "TransactionStatusChanged"}
RefundEvents == {"REFUND_STATUS_CHANGED", "RefundStatusChanged"}

\* every field of transaction i but its notes is as before the request
SameButNotes(i) == [txs[i] EXCEPT !.notes = 0] = [last.pre[i] EXCEPT !.notes = 0]

\* C19: among authenticated webhook events only payment-status events change
\* a transaction's state or provider_reference or call the gateway; a
\* refund event at most posts one note, on the transaction whose
\* provider_reference is the event's InvoiceId; every other event changes
\* nothing; and these events are acknowledged with 200 as processed.
C19_OnlyPaymentEventsAct ==
    (AuthenticatedEvent /\ last.out.event_type \notin PaymentEvents)
    => /\ \A i \in TxIds : SameButNotes(i)
       /\ last.out.lcalls = <<>> /\ last.out.rcalls = <<>>
       /\ last.out.locates = 0 /\ last.out.reconciles = 0
       /\ \A i \in TxIds :
             txs[i].notes # last.pre[i].notes
             => /\ last.out.event_type \in RefundEvents
                /\ txs[i].notes = last.pre[i].notes + 1
                /\ JsonLoads(last.raw_body).InvoiceId # 0
                /\ txs[i].provider_reference
                       = ToString(JsonLoads(last.raw_body).InvoiceId)
       /\ last.out.http = 200
       /\ last.out.message = "Event processed successfully"

\* x rounded to three decimals: the multiple of ten ten-thousandths nearest
\* to x
IsRounded(r, x) == r % 10 = 0 /\ r - x < 5 /\ x - r < 5

\* C20 as claimed: the payload has exactly one InvoiceItems entry per order
\* line, each with that line's unit price (rounded to three decimals), when
\* the transaction has order lines; without lines it has exactly one entry,
\* with the transaction's reference as name, quantity 1 and the
\* transaction's amount as unit price.
C20_OneItemPerLine ==
    req.created
    => IF req.order_lines # <<>>
       THEN /\ Len(req.InvoiceItems) = Len(req.order_lines)
            /\ \A k \in 1..Len(req.order_lines) :
                  IsRounded(req.InvoiceItems[k].UnitPrice,
                            req.order_lines[k].price_unit)
       ELSE /\ Len(req.InvoiceItems) = 1
            /\ req.InvoiceItems[1].ItemName = req.reference
            /\ req.InvoiceItems[1].Quantity = 1
            /\ IsRounded(req.InvoiceItems[1].UnitPrice, req.amount)

\* the order lines that have a product and a positive unit price
Billable == SelectSeq(req.order_lines,
                      LAMBDA l : l.product # "" /\ l.price_unit > 0)

\* C20 as amended: the payload has exactly one InvoiceItems entry per order
\* line that has a product and a positive unit price, in the order of the
\* lines, each with the line's unit price rounded to three decimals; when
\* there is no such line it has exactly one entry, whose name is the
\* transaction's reference, whose quantity is 1 and whose unit price is the amount rounded to three
\* decimals.
C20_OneItemPerBillableLine ==
    req.created
    => IF Billable # <<>>
       THEN /\ Len(req.InvoiceItems) = Len(Billable)
            /\ \A k \in 1..Len(Billable) :
                  IsRounded(req.InvoiceItems[k].UnitPrice, Billable[k].price_unit)
       ELSE /\ Len(req.InvoiceItems) = 1
            /\ req.InvoiceItems[1].ItemName = req.reference
            /\ req.InvoiceItems[1].Quantity = 1
            /\ IsRounded(req.InvoiceItems[1].UnitPrice, req.amount)

\* two order lines with products and prices 10.5 and 2.5007 gave two items
\* with unit prices 10.5 and 2.501
C20_Witness ==
    /\ req.created /\ Len(req.order_lines) = 2
    /\ req.order_lines[1].price_unit = 105000
    /\ req.order_lines[2].price_unit = 25007
    /\ Len(req.InvoiceItems) = 2
    /\ req.InvoiceItems[1].UnitPrice = 105000
    /\ req.InvoiceItems[2].UnitPrice = 25010

\* the transaction the reconciler ran on, before the request and after it
Before == last.pre[last.out.located]
After == txs[last.out.located]

\* the reconciler ran on a transaction whose provider has an API key
ReconciledWithKey ==
    /\ last.out.reconciles = 1
    /\ Before.provider_code = "myfatoorah"
    /\ providers[Before.provider_id].api_key

\* the status query of the request has key k and key type kt
Queried(k, kt) ==
    /\ Len(last.out.rcalls) = 1
    /\ last.out.rcalls[1].Key = k /\ last.out.rcalls[1].KeyType = kt

\* the key the claim prescribes is sent; with no identifier no call is made
KeyAsPrescribed ==
    LET n == last.out.notification
    IN  IF n.paymentId # "" THEN Queried(n.paymentId, "PaymentId")
        ELSE IF n.InvoiceId # 0 THEN Queried(Str(n.InvoiceId), "InvoiceId")
        ELSE IF Before.provider_reference # ""
        THEN Queried(Before.provider_reference, "InvoiceId")
        ELSE last.out.rcalls = <<>>

\* the payload has no paymentId and no InvoiceId and the transaction has no
\* provider_reference
NoIdentifier ==
    /\ last.out.notification.paymentId = "" /\ last.out.notification.InvoiceId = 0
    /\ Before.provider_reference = ""

\* C21 as claimed: reconcile queries with KeyType PaymentId when the payload
\* has a paymentId, whatever else is available; otherwise with KeyType
\* InvoiceId and the payload's InvoiceId or else the transaction's
\* provider_reference; with none of the three it makes no gateway call and
\* the transaction is in error afterwards.
C21_KeyChoiceThenError ==
    ReconciledWithKey
    => /\ KeyAsPrescribed
       /\ NoIdentifier => After.state = "error"

\* C21 as amended: the key is chosen in the same way, and with none of the
\* three identifiers reconcile makes no gateway call and invokes the error
\* primitive, and nothing else, with the message about the missing
\* identification: the transaction is in error afterwards unless it was
\* already done or canceled, and then it is left as it was.
C21_KeyChoiceThenSetError ==
    ReconciledWithKey
    => /\ KeyAsPrescribed
       /\ NoIdentifier
          => /\ last.out.primitives = <<"set_error">>
             /\ After = set_error(Before,
                    Msg("Missing payment identification in the notification.", ""))
             /\ Before.state \notin {"done", "cancel"} => After.state = "error"
             /\ Before.state \in {"done", "cancel"} => After = Before

\* a webhook carried a paymentId and an InvoiceId for a transaction that has
\* a provider_reference, and the status was queried by PaymentId
C21_Witness ==
    /\ ReconciledWithKey
    /\ last.out.notification.paymentId = "pay1"
    /\ last.out.notification.InvoiceId = 101
    /\ Before.provider_reference = "101"
    /\ Queried("pay1", "PaymentId")

\* a webhook with the reference alone reached a draft transaction without
\* provider_reference: no call, and the transaction is in error
C21_WitnessNoIdentifier ==
    /\ ReconciledWithKey /\ NoIdentifier
    /\ Before.state = "draft" /\ After.state = "error"
    /\ last.out.rcalls = <<>>

\* C22: reconcile writes provider_reference only to back-fill it: after a
\* status result it is the result's InvoiceId when it was empty before; a
\* provider_reference that is set is not changed by any request, whatever
\* InvoiceId the result or the payload carries; without a status result (a
\* gateway error, no identifier) it is left as it was; and the
\* provider_reference of no other transaction is written.
C22_ProviderReferenceBackfillOnly ==
    /\ \A i \in TxIds :
          (last.kind # "none" /\ ~Reconciled(i))
          => txs[i].provider_reference = last.pre[i].provider_reference
    /\ last.out.reconciles = 1
       => /\ Before.provider_reference # ""
             => After.provider_reference = Before.provider_reference
          /\ (GotStatus /\ Before.provider_reference = ""
                        /\ StatusResponse.Data.InvoiceId # 0)
             => After.provider_reference = Str(StatusResponse.Data.InvoiceId)
          /\ ~(GotStatus /\ StatusResponse.Data.InvoiceId # 0)
             => After.provider_reference = Before.provider_reference

\* a status result with InvoiceId 101 filled the empty provider_reference
C22_Witness ==
    /\ GotStatus /\ Before.provider_reference = ""
    /\ StatusResponse.Data.InvoiceId = 101
    /\ After.provider_reference = "101"

\* a status result with InvoiceId 109, and a payload with InvoiceId 102, left
\* the provider_reference 101 as it was
C22_WitnessKept ==
    /\ GotStatus /\ Before.provider_reference = "101"
    /\ StatusResponse.Data.InvoiceId = 109
    /\ last.out.notification.InvoiceId = 102
    /\ After.provider_reference = "101"

\* request r fetched a status result whose invoice-level status is one of S
Fetched(r, S) ==
    /\ req[r].result.sent /\ req[r].result.raised = ""
    /\ Lower(req[r].result.data.InvoiceStatus) \in S

\* two reconciliations of transaction 1 have run to their end, one with the
\* older status of the gateway and one with the newer status paid
StaleRaceOver ==
    /\ RaceOver
    /\ \E r, q \in Arrived : /\ Fetched(r, {"pending", "initiated"})
                             /\ Fetched(q, {"paid"})

\* C23 as claimed: when one of two concurrent reconciliations of a
\* transaction fetched the older status pending or initiated and the other
\* the newer status paid, the transaction ends in done under every
\* interleaving.
C23_StaleRaceEndsDone == StaleRaceOver => txs[1].state = "done"

\* C23 as amended: under every interleaving of such a pair the transaction
\* ends in done unless it was canceled before the two began, and then it
\* stays canceled; and at no step of a reconciliation does a transaction
\* that is done leave done, so the late application of the older status does
\* not move it back to pending.
C23_StaleRaceEndsDoneUnlessCanceled ==
    /\ [](StaleRaceOver => txs[1].state = (IF last.pre[1].state = "cancel"
                                           THEN "cancel" ELSE "done"))
    /\ [][txs[1].state = "done" => txs'[1].state = "done"]_vars

\* the request with the status paid applied it first, to a draft
\* transaction, the request with the status pending applied it afterwards,
\* and the transaction is done
C23_Witness ==
    /\ StaleRaceOver
    /\ last.pre[1].state = "draft"
    /\ \E r, q \in Arrived :
          /\ Fetched(r, {"pending"}) /\ req[r].seen = "draft"
          /\ Fetched(q, {"paid"}) /\ req[q].seen = "draft"
          /\ req[r].applied = "done"
    /\ txs[1].state = "done"

\* the state a transition primitive moves a transaction to
TargetOf(primitive) ==
    CASE primitive = "set_done" -> "done"
      [] primitive = "set_pending" -> "pending"
      [] primitive = "set_canceled" -> "cancel"
      [] primitive = "set_error" -> "error"

\* C24: for a transaction that is already done, canceled or in error, no
\* reconcile call invokes a transition primitive whose target state differs
\* from that state without first reading the transaction's current state.
C24_ReadsStateBeforeConflict ==
    (last.out.reconciles = 1 /\ Before.state \in {"done", "cancel", "error"})
    => \A k \in 1..Len(last.out.primitives) :
          TargetOf(last.out.primitives[k]) # Before.state
          => last.out.state_reads > 0

\* a response the client may hand on: HTTP 200 with IsSuccess true
Usable(resp) == resp.kind = "Json" /\ resp.http = 200 /\ resp.IsSuccess

\* the reconciler treated its status call as failed with a gateway error
HandledAsGatewayError ==
    /\ last.out.raised = ""
    /\ last.out.primitives = <<"set_error">>
    /\ After = set_error(Before, Msg("Failed to verify payment status.", ""))

\* no transition but the one to error was asked for on an unusable response,
\* and the locator found its transaction through a usable one
UnusableNeverUsed ==
    /\ (last.out.rcalls # <<>> /\ ~Usable(StatusResponse))
       => \A k \in 1..Len(last.out.primitives) :
             last.out.primitives[k] = "set_error"
    /\ (last.out.located # 0 /\ last.out.lcalls # <<>>)
       => Usable(last.out.lcalls[Len(last.out.lcalls)].resp)

\* C25: a gateway response is used as a status result only when its HTTP
\* status is 200 and its success flag is true; for every other response the
\* client raises a gateway error, which reconcile handles by setting the
\* transaction to error, so that no transition to done, pending or canceled
\* rests on such a response and the locator resolves no identifier from one.
C25_OnlyUsableResponsesUsed ==
    /\ UnusableNeverUsed
    /\ (last.out.rcalls # <<>> /\ ~Usable(StatusResponse)) => HandledAsGatewayError

\* the status result reports success: its invoice-level status is paid, or
\* its last entry has the gateway's success token 'Succss', in any case of
\* the letters
ReportsSuccess ==
    /\ GotStatus
    /\ \/ Lower(StatusResponse.Data.InvoiceStatus) = "paid"
       \/ Entries # <<>> /\ Lower(LastEntry.TransactionStatus) = "succss"

\* C26 as claimed: when the invoice-level status is paid or the status of
\* the last entry is the gateway's success token, in any case of the
\* letters, the transaction is done afterwards.
C26_SuccessIsDone == ReportsSuccess => After.state = "done"

\* C26 as amended: in that case reconcile invokes set_done and nothing
\* else, never the error primitive for an unrecognised status; the
\* transaction is done afterwards unless it was canceled before, and then it
\* stays canceled.
C26_SuccessInvokesSetDone ==
    ReportsSuccess
    => /\ last.out.primitives = <<"set_done">>
       /\ After.state = (IF Before.state = "cancel" THEN "cancel" ELSE "done")

\* the invoice was pending and the last entry said SUCCSS: the draft
\* transaction is done
C26_Witness ==
    /\ ReportsSuccess
    /\ StatusResponse.Data.InvoiceStatus = "Pending"
    /\ Len(Entries) = 2 /\ LastEntry.TransactionStatus = "SUCCSS"
    /\ Before.state = "draft" /\ After.state = "done"

\* the provider that resolved the paymentId in tier 3 of the locator: the
\* one asked last, 0 when the locator asked none
Resolver ==
    IF last.out.located # 0 /\ last.out.lcalls # <<>>
    THEN last.out.lcalls[Len(last.out.lcalls)].provider ELSE 0

\* C27: every status call of reconcile goes through the provider of the
\* located transaction, also when the provider whose secret validated the
\* webhook or the provider that resolved the paymentId in tier 3 is another
\* one; and reconcile runs on the transaction whichever provider
\* authenticated the webhook.
C27_StatusCallThroughOwner ==
    last.out.reconciles = 1
    => /\ \A k \in 1..Len(last.out.rcalls) :
             last.out.rcalls[k].provider = Before.provider_id
       /\ (Before.provider_code = "myfatoorah"
           /\ providers[Before.provider_id].api_key
           /\ StatusKey(Before, last.out.notification).key # "")
          => Len(last.out.rcalls) = 1

\* a webhook validated by the secret of provider 1, whose paymentId provider
\* 1 resolved, reconciled transaction 2 through its provider 2
C27_Witness ==
    /\ last.kind = "webhook" /\ last.out.reconciles = 1
    /\ last.out.matching_provider = 1 /\ Resolver = 1
    /\ last.out.located = 2 /\ Before.provider_id = 2
    /\ Len(last.out.rcalls) = 1 /\ last.out.rcalls[1].provider = 2

====
